---- MODULE Spec2Model ----
(***************************************************************************)
(* Model of tekscope/parse.py: the three decoders of raw oscilloscope      *)
(* responses.                                                              *)
(*                                                                         *)
(*   parse_ribinary_seq(data, dtype)  np.frombuffer with a big-endian dtype *)
(*   parse_ascii_seq(data, dtype)     np.array(data.split(b","), dtype)     *)
(*   parse_wfmoutpre(data)            split on ";" and float() of 5 fields  *)
(*                                                                         *)
(* A byte buffer is a sequence of byte values (binary decoder) or of       *)
(* one-character strings (the two text decoders).  One call is one action: *)
(* the inputs are drawn by Init, the action applies the function and       *)
(* stores what the call produced (a value or the exception it raised) in   *)
(* `result`.                                                               *)
(***************************************************************************)
EXTENDS Integers, Sequences, FiniteSets, TLC

VARIABLES
    pc,         \* "ready" before the call, "done" after it
    fn,         \* the function called
    pieces,     \* the tokens or fields the text buffer was joined from
    data,       \* the `data` argument
    dtype,      \* the `dtype` argument: the width in bits of a signed integer
    numpy,      \* major version of the NumPy the call runs on (1 or 2)
    longBits,   \* width of the platform's C long (32 or 64)
    result      \* what the call produced

vars == <<pc, fn, pieces, data, dtype, numpy, longBits, result>>

(***************************************************************************)
(* Bounds of the model.                                                    *)
(***************************************************************************)
\* longest buffer over the whole byte alphabet handed to the binary decoder
MaxBinLen == 4
\* most spare bytes appended after two whole 32-bit words
MaxSpare == 3

(***************************************************************************)
(* Generic helpers.                                                        *)
(***************************************************************************)
\* all sequences over S of length 0..n
SeqsUpTo(S, n) == UNION {[1..k -> S] : k \in 0..n}

NoResult == [kind |-> "none"]

\* an exception leaving the call: its class and the text its message quotes
Raise(exc, arg) == [kind |-> "error", exc |-> exc, arg |-> arg]

\* the dtypes the decoders are used with: np.int8, np.int16, np.int32
Widths == {8, 16, 32}

\* np.dtype(dtype).itemsize
ItemSize(w) == w \div 8

(***************************************************************************)
(* parse_ribinary_seq                                                      *)
(***************************************************************************)
\* one element of a '>i<n>' array: the first byte carries the sign, every
\* further byte is 8 less significant bits
RECURSIVE BigEndianAcc(_, _, _)
BigEndianAcc(bytes, k, acc) ==
    IF k > Len(bytes) THEN acc
    ELSE BigEndianAcc(bytes, k + 1, acc * 256 + bytes[k])

\* the same element read in the opposite byte order (a little-endian host's
\* native order)
LittleEndianSigned(bytes) ==
    LET n == Len(bytes)
        rev == [k \in 1..n |-> bytes[n + 1 - k]]
    IN  BigEndianAcc(rev, 2, IF rev[1] >= 128 THEN rev[1] - 256 ELSE rev[1])

\* the same element with every byte, not only the first, taken as signed
RECURSIVE BytewiseSignedAcc(_, _, _)
BytewiseSignedAcc(bytes, k, acc) ==
    IF k > Len(bytes) THEN acc
    ELSE BytewiseSignedAcc(bytes, k + 1,
            acc * 256 + (IF bytes[k] >= 128 THEN bytes[k] - 256 ELSE bytes[k]))

BytewiseSigned(bytes) == BytewiseSignedAcc(bytes, 1, 0)

BigEndianSigned(bytes) ==
    BigEndianAcc(bytes, 2, IF bytes[1] >= 128 THEN bytes[1] - 256 ELSE bytes[1])

\* np.frombuffer that decodes the whole elements of the buffer and drops the
\* bytes left over
FromBufferTruncating(buf, w) ==
    LET size == ItemSize(w)
        n == Len(buf) \div size
    IN  [kind |-> "array", dtype |-> w,
         items |-> [i \in 1..n |->
                      BigEndianSigned(SubSeq(buf, (i - 1) * size + 1, i * size))]]

\* np.frombuffer(buf, dtype='>i<w/8>') with count=-1, offset=0
FromBuffer(buf, w) ==
    LET size == ItemSize(w)
        n == Len(buf) \div size
    IN  IF Len(buf) % size # 0
        THEN Raise("ValueError", "buffer size must be a multiple of element size")
        ELSE [kind |-> "array", dtype |-> w,
              items |-> [i \in 1..n |->
                           BigEndianSigned(SubSeq(buf, (i - 1) * size + 1, i * size))]]

parse_ribinary_seq(buf, w) == FromBuffer(buf, w)

\* byte values the buffers are built from: the doctest's 07 05 f8 c1 and the
\* extremes of each byte
ByteVals == {0, 5, 7, 127, 128, 193, 248, 255}

\* whole 32-bit words for the buffers of two 32-bit elements
Words32 == { <<0, 0, 0, 0>>, <<128, 0, 0, 0>>, <<127, 255, 255, 255>>,
             <<255, 255, 255, 255>>, <<7, 5, 248, 193>> }

BinBuffers ==
    SeqsUpTo(ByteVals, MaxBinLen)
    \cup { a \o b \o s : a \in Words32, b \in Words32, s \in SeqsUpTo({1}, MaxSpare) }

InitBin ==
    /\ pc = "ready"
    /\ fn = "parse_ribinary_seq"
    /\ pieces = <<>>
    /\ data \in BinBuffers
    /\ dtype \in Widths
    /\ numpy \in {1, 2}
    /\ longBits = 64
    /\ result = NoResult

CallRibinary ==
    /\ pc = "ready"
    /\ fn = "parse_ribinary_seq"
    /\ result' = parse_ribinary_seq(data, dtype)
    /\ pc' = "done"
    /\ UNCHANGED <<fn, pieces, data, dtype, numpy, longBits>>

NextBin == CallRibinary

SpecBin == InitBin /\ [][NextBin]_vars

(***************************************************************************)
(* Text buffers: sequences of one-character strings.                       *)
(***************************************************************************)
\* the elements of a set of numbers in increasing order
RECURSIVE Ascending(_)
Ascending(S) ==
    IF S = {} THEN <<>>
    ELSE LET m == CHOOSE x \in S : \A y \in S : x <= y
         IN  <<m>> \o Ascending(S \ {m})

\* the pieces of s between the cut positions `cuts` (increasing; they start
\* with 0 and end with Len(s) + 1)
PiecesBetween(s, cuts) ==
    [j \in 1..(Len(cuts) - 1) |-> SubSeq(s, cuts[j] + 1, cuts[j + 1] - 1)]

\* a split that drops the empty pieces, as bytes.split() without separator
\* does for runs of white space
SplitDroppingEmpty(s, sep) ==
    SelectSeq(PiecesBetween(s, <<0>> \o Ascending({k \in 1..Len(s) : s[k] = sep})
                                   \o <<Len(s) + 1>>),
              LAMBDA x : x # <<>>)

\* bytes.split(sep) for a one-byte separator: the pieces between the
\* separators, empty pieces kept; a buffer without separator (the empty one
\* included) is one piece
Split(s, sep) ==
    PiecesBetween(s, <<0>> \o Ascending({k \in 1..Len(s) : s[k] = sep})
                         \o <<Len(s) + 1>>)

\* sep.join(parts), to build the buffers
RECURSIVE Join(_, _)
Join(parts, sep) ==
    IF parts = <<>> THEN <<>>
    ELSE IF Len(parts) = 1 THEN parts[1]
    ELSE parts[1] \o <<sep>> \o Join(Tail(parts), sep)

\* Py_ISSPACE, as far as a TLA+ string can spell it
IsSpace(c) == c \in {" ", "\t", "\n", "\r", "\f"}

DigitChars == <<"0", "1", "2", "3", "4", "5", "6", "7", "8", "9">>
IsDigit(c) == \E d \in 1..10 : DigitChars[d] = c
DigitVal(c) == (CHOOSE d \in 1..10 : DigitChars[d] = c) - 1

RECURSIVE LStrip(_)
LStrip(s) == IF s # <<>> /\ IsSpace(Head(s)) THEN LStrip(Tail(s)) ELSE s

RECURSIVE RStrip(_)
RStrip(s) ==
    IF s # <<>> /\ IsSpace(s[Len(s)]) THEN RStrip(SubSeq(s, 1, Len(s) - 1)) ELSE s

Strip(s) == RStrip(LStrip(s))

\* digits with single underscores between them (a Python numeric literal's
\* digit part)
IsDigitPart(s) ==
    /\ s # <<>>
    /\ IsDigit(s[1])
    /\ IsDigit(s[Len(s)])
    /\ \A k \in 1..Len(s) :
          \/ IsDigit(s[k])
          \/ s[k] = "_" /\ IsDigit(s[k - 1]) /\ IsDigit(s[k + 1])

\* the digits of a digit part, underscores dropped
OnlyDigits(s) == SelectSeq(s, IsDigit)

(***************************************************************************)
(* Python integers: unbounded, kept as sign and magnitude, the magnitude   *)
(* as 16-bit limbs, least significant first, without leading zero limbs.   *)
(***************************************************************************)
LimbBase == 65536

RECURSIVE MagMulAddAcc(_, _, _, _, _)
MagMulAddAcc(mag, m, k, carry, out) ==
    IF k > Len(mag)
    THEN IF carry = 0 THEN out ELSE Append(out, carry)
    ELSE LET t == mag[k] * m + carry
         IN  MagMulAddAcc(mag, m, k + 1, t \div LimbBase, Append(out, t % LimbBase))

\* mag * m + a  for a small multiplier m and addend a
MagMulAdd(mag, m, a) == MagMulAddAcc(mag, m, 1, a, <<>>)

RECURSIVE MagFromDigitsAcc(_, _, _)
MagFromDigitsAcc(digits, k, mag) ==
    IF k > Len(digits) THEN mag
    ELSE MagFromDigitsAcc(digits, k + 1, MagMulAdd(mag, 10, DigitVal(digits[k])))

MagFromDigits(digits) == MagFromDigitsAcc(digits, 1, <<>>)

PyInt(neg, mag) == [kind |-> "int", neg |-> neg /\ mag # <<>>, mag |-> mag]

\* mag < 2^p
MagBelowPow2(mag, p) ==
    LET q == p \div 16
        r == p % 16
    IN  \/ Len(mag) <= q
        \/ Len(mag) = q + 1 /\ mag[q + 1] < 2 ^ r

\* mag = 2^p
MagIsPow2(mag, p) ==
    LET q == p \div 16
        r == p % 16
    IN  /\ Len(mag) = q + 1
        /\ mag[q + 1] = 2 ^ r
        /\ \A k \in 1..q : mag[k] = 0

\* -2^(bits-1) <= v <= 2^(bits-1) - 1
FitsSigned(v, bits) ==
    \/ MagBelowPow2(v.mag, bits - 1)
    \/ v.neg /\ MagIsPow2(v.mag, bits - 1)

Limb(mag, k) == IF k <= Len(mag) THEN mag[k] ELSE 0

Signed16(x) == IF x >= 32768 THEN x - LimbBase ELSE x
Signed8(x) == IF x >= 128 THEN x - 256 ELSE x

\* a C cast that clips to the ends of the target range instead of dropping
\* the high bits
SaturateToWidth(v, w) ==
    IF FitsSigned(v, w)
    THEN LET lo == Limb(v.mag, 1)
             hi == Limb(v.mag, 2)
         IN  IF w = 32 /\ v.neg /\ hi = 32768 THEN (-32768) * LimbBase
             ELSE (IF v.neg THEN -1 ELSE 1) * (hi * LimbBase + lo)
    ELSE IF v.neg THEN -((2 ^ (w - 2) - 1) * 2 + 1) - 1
    ELSE (2 ^ (w - 2) - 1) * 2 + 1

\* the C cast (npy_byte)x, (npy_short)x, (npy_int)x of a C long: the low w
\* bits of the two's-complement form, read as a signed integer
TruncateToWidth(v, w) ==
    LET lo == Limb(v.mag, 1)
        hi == Limb(v.mag, 2)
        tlo == IF v.neg THEN (LimbBase - lo) % LimbBase ELSE lo
        thi == IF v.neg
               THEN (LimbBase - 1 - hi + (IF lo = 0 THEN 1 ELSE 0)) % LimbBase
               ELSE hi
    IN  CASE w = 8 -> Signed8(tlo % 256)
          [] w = 16 -> Signed16(tlo)
          [] w = 32 -> Signed16(thi) * LimbBase + tlo

(***************************************************************************)
(* parse_ascii_seq                                                         *)
(***************************************************************************)
\* int(token) for a bytes token (PyLong_FromString, base 10): white space
\* around the literal is skipped, then an optional sign, then digits with
\* single underscores allowed between them; anything else is a ValueError
\* whose message quotes the token
PyLongFromBytes(tok) ==
    LET t == Strip(tok)
        body == IF t # <<>> /\ t[1] \in {"+", "-"} THEN Tail(t) ELSE t
    IN  IF IsDigitPart(body)
        THEN PyInt(t[1] = "-", MagFromDigits(OnlyDigits(body)))
        ELSE Raise("ValueError", tok)

\* <int dtype>_setitem of a Python int.  NumPy 2 refuses a value outside the
\* dtype's range; NumPy 1 takes it through a C long (PyLong_AsLong, which
\* refuses what does not fit the long) and casts the long to the dtype.
IntSetItem(v, w, np, lbits) ==
    IF np >= 2
    THEN IF FitsSigned(v, w)
         THEN [kind |-> "item", value |-> TruncateToWidth(v, w)]
         ELSE Raise("OverflowError", "out of bounds for dtype")
    ELSE IF FitsSigned(v, lbits)
         THEN [kind |-> "item", value |-> TruncateToWidth(v, w)]
         ELSE Raise("OverflowError", "too large to convert to C long")

\* string -> integer cast of one element: int(token), then setitem
ConvertToken(tok, w, np, lbits) ==
    LET v == PyLongFromBytes(tok)
    IN  IF v.kind = "error" THEN v ELSE IntSetItem(v, w, np, lbits)

\* np.array(tokens, dtype): the elements are converted in order and the
\* first one that fails ends the call with its exception
RECURSIVE NpArrayAcc(_, _, _, _, _, _)
NpArrayAcc(tokens, w, np, lbits, k, items) ==
    IF k > Len(tokens) THEN [kind |-> "array", dtype |-> w, items |-> items]
    ELSE LET c == ConvertToken(tokens[k], w, np, lbits)
         IN  IF c.kind = "error" THEN c
             ELSE NpArrayAcc(tokens, w, np, lbits, k + 1, Append(items, c.value))

NpArray(tokens, w, np, lbits) == NpArrayAcc(tokens, w, np, lbits, 1, <<>>)

\* the separator of the preamble's fields
Semicolon == ";"

\* a separator the curve format does not use
Blank == " "

\* the separator of the ASCII curve format
Comma == ","

parse_ascii_seq(buf, w, np, lbits) == NpArray(Split(buf, Comma), w, np, lbits)

\* most tokens in a buffer handed to the ASCII decoder
MaxTokens == 2

\* tokens a buffer starts with: literals inside and at the ends of each
\* width's range, literals outside it, literals with white space or
\* underscores, and malformed ones
HeadTokens == {
    <<"1">>,
    <<"2">>,
    <<"-", "1">>,
    <<"+", "5">>,
    <<"0", "0", "7">>,
    <<"1", "2", "7">>,
    <<"-", "1", "2", "8">>,
    <<"3", "2", "7", "6", "7">>,
    <<"-", "3", "2", "7", "6", "8">>,
    <<"2", "1", "4", "7", "4", "8", "3", "6", "4", "7">>,
    <<"-", "2", "1", "4", "7", "4", "8", "3", "6", "4", "8">>,
    <<"1", "2", "8">>,
    <<"-", "1", "2", "9">>,
    <<"3", "0", "0">>,
    <<"3", "2", "7", "6", "8">>,
    <<"6", "5", "5", "3", "6">>,
    <<"2", "1", "4", "7", "4", "8", "3", "6", "4", "8">>,
    <<"-", "2", "1", "4", "7", "4", "8", "3", "6", "4", "9">>,
    <<"4", "2", "9", "4", "9", "6", "7", "2", "9", "6">>,
    <<"9", "2", "2", "3", "3", "7", "2", "0", "3", "6", "8", "5", "4", "7", "7", "5", "8", "0", "7">>,
    <<"9", "2", "2", "3", "3", "7", "2", "0", "3", "6", "8", "5", "4", "7", "7", "5", "8", "0", "8">>,
    <<"-", "9", "2", "2", "3", "3", "7", "2", "0", "3", "6", "8", "5", "4", "7", "7", "5", "8", "0", "9">>,
    <<" ", "1">>,
    <<"1", " ">>,
    <<"1", "\n">>,
    <<"1", "_", "0">>,
    <<>>,
    <<"x">>,
    <<"1", ".", "5">>,
    <<"-">>,
    <<"1", "_", "_", "0">>,
    <<"_", "1">>,
    <<"+", "-", "1">>,
    <<"1", " ", "2">>
}

\* tokens that may follow
TailTokens == {
    <<"2">>,
    <<"-", "1", "2", "9">>,
    <<" ", "1">>,
    <<"x">>,
    <<>>
}

AsciiTokenLists ==
    { <<h>> \o t : h \in HeadTokens, t \in SeqsUpTo(TailTokens, MaxTokens - 1) }

InitAscii ==
    /\ pc = "ready"
    /\ fn = "parse_ascii_seq"
    /\ pieces \in AsciiTokenLists
    /\ data = Join(pieces, ",")
    /\ dtype \in Widths
    /\ numpy \in {1, 2}
    /\ longBits \in {32, 64}
    /\ result = NoResult

CallAscii ==
    /\ pc = "ready"
    /\ fn = "parse_ascii_seq"
    /\ result' = parse_ascii_seq(data, dtype, numpy, longBits)
    /\ pc' = "done"
    /\ UNCHANGED <<fn, pieces, data, dtype, numpy, longBits>>

NextAscii == CallAscii

SpecAscii == InitAscii /\ [][NextAscii]_vars

(***************************************************************************)
(* Python floats.  A finite float is kept as the decimal value its literal *)
(* denotes, m * 10^e with m not a multiple of 10 (zero is 0 * 10^0); the   *)
(* rounding to a binary double is left out.                                *)
(***************************************************************************)
RECURSIVE NormFloat(_, _)
NormFloat(m, e) ==
    IF m = 0 THEN [cls |-> "finite", m |-> 0, e |-> 0]
    ELSE IF m % 10 = 0 THEN NormFloat(m \div 10, e + 1)
    ELSE [cls |-> "finite", m |-> m, e |-> e]

RECURSIVE NatFromDigits(_, _, _)
NatFromDigits(ds, k, acc) ==
    IF k > Len(ds) THEN acc ELSE NatFromDigits(ds, k + 1, acc * 10 + DigitVal(ds[k]))

\* index of the first element of s that is in `chars`, Len(s) + 1 if there
\* is none
RECURSIVE IndexOfAny(_, _, _)
IndexOfAny(chars, s, k) ==
    IF k > Len(s) \/ s[k] \in chars THEN k ELSE IndexOfAny(chars, s, k + 1)

AllDigits(s) == \A k \in 1..Len(s) : IsDigit(s[k])

Lower(c) ==
    CASE c = "I" -> "i" [] c = "N" -> "n" [] c = "F" -> "f" [] c = "A" -> "a"
      [] c = "T" -> "t" [] c = "Y" -> "y" [] OTHER -> c

\* underscores are legal in a float literal only between two digits
UnderscoresBetweenDigits(s) ==
    \A k \in 1..Len(s) :
        s[k] = "_" => k > 1 /\ k < Len(s) /\ IsDigit(s[k - 1]) /\ IsDigit(s[k + 1])

\* float(field) for a bytes field (PyFloat_FromString): white space around
\* the literal is skipped and underscores between digits dropped; then a
\* sign, then inf, infinity or nan in any case, or digits with an optional
\* point and an optional exponent.  Anything else is a ValueError whose
\* message quotes the field.
PyFloatFromBytes(tok) ==
    LET t == Strip(tok)
        u == SelectSeq(t, LAMBDA c : c # "_")
        neg == u # <<>> /\ u[1] = "-"
        body == IF u # <<>> /\ u[1] \in {"+", "-"} THEN Tail(u) ELSE u
        word == [k \in 1..Len(body) |-> Lower(body[k])]
        ex == IndexOfAny({"e", "E"}, body, 1)
        mant == SubSeq(body, 1, ex - 1)
        expo == SubSeq(body, ex + 1, Len(body))
        eneg == expo # <<>> /\ expo[1] = "-"
        edig == IF expo # <<>> /\ expo[1] \in {"+", "-"} THEN Tail(expo) ELSE expo
        pt == IndexOfAny({"."}, mant, 1)
        ipart == SubSeq(mant, 1, pt - 1)
        fpart == SubSeq(mant, pt + 1, Len(mant))
        mantOk == AllDigits(ipart) /\ AllDigits(fpart) /\ ipart \o fpart # <<>>
        expOk == ex > Len(body) \/ (edig # <<>> /\ AllDigits(edig))
        m == NatFromDigits(ipart \o fpart, 1, 0)
        e == (IF eneg THEN -1 ELSE 1) * NatFromDigits(edig, 1, 0) - Len(fpart)
    IN  IF ~UnderscoresBetweenDigits(t) THEN Raise("ValueError", tok)
        ELSE IF word \in {<<"i", "n", "f">>, <<"i", "n", "f", "i", "n", "i", "t", "y">>}
        THEN [cls |-> "inf", m |-> IF neg THEN -1 ELSE 1, e |-> 0]
        ELSE IF word = <<"n", "a", "n">> THEN [cls |-> "nan", m |-> 0, e |-> 0]
        ELSE IF mantOk /\ expOk THEN NormFloat(IF neg THEN -m ELSE m, e)
        ELSE Raise("ValueError", tok)

IsError(x) == "kind" \in DOMAIN x /\ x.kind = "error"

(***************************************************************************)
(* parse_wfmoutpre                                                         *)
(***************************************************************************)
\* WaveformMetadata(t_incr, t_zero, v_mult, v_off, v_zero): a record of the
\* five values, in the order of its fields
WaveformMetadata(a, b, c, d, e) ==
    [t_incr |-> a, t_zero |-> b, v_mult |-> c, v_off |-> d, v_zero |-> e]

\* fewest fields of a preamble that holds the five values
MinFields == 17

\* the arguments of the constructor are evaluated left to right, and the
\* first float() that fails ends the call
RECURSIVE FirstError(_, _)
FirstError(vals, k) ==
    IF k > Len(vals) THEN NoResult
    ELSE IF IsError(vals[k]) THEN vals[k] ELSE FirstError(vals, k + 1)

\* the constructor's arguments taken one field too early (indices counted
\* from 1 instead of 0)
KeyFieldsOffByOne(fields) ==
    << fields[10], fields[11], fields[14], fields[15], fields[16] >>

\* data[10], data[11], data[14], data[15], data[16] (sequences here count
\* from 1)
KeyFields(fields) ==
    << fields[11], fields[12], fields[15], fields[16], fields[17] >>

\* len(data) < 17
TooShort(fields) == Len(fields) < MinFields

\* a decoder without the length test: indexing a short list raises
parse_wfmoutpre_unchecked(buf) ==
    LET fields == Split(buf, Semicolon)
    IN  IF TooShort(fields) THEN Raise("IndexError", "list index out of range")
        ELSE LET key == KeyFields(fields)
                 vals == [k \in 1..5 |-> PyFloatFromBytes(key[k])]
                 err == FirstError(vals, 1)
             IN  IF IsError(err) THEN err
                 ELSE [kind |-> "metadata",
                       meta |-> WaveformMetadata(vals[1], vals[2], vals[3],
                                                 vals[4], vals[5])]

\* a decoder that answers a malformed number with the absent result
parse_wfmoutpre_lenient(buf) ==
    LET fields == Split(buf, Semicolon)
    IN  IF TooShort(fields) THEN [kind |-> "absent"]
        ELSE LET key == KeyFields(fields)
                 vals == [k \in 1..5 |-> PyFloatFromBytes(key[k])]
             IN  IF IsError(FirstError(vals, 1)) THEN [kind |-> "absent"]
                 ELSE [kind |-> "metadata",
                       meta |-> WaveformMetadata(vals[1], vals[2], vals[3],
                                                 vals[4], vals[5])]

parse_wfmoutpre(buf) ==
    LET fields == Split(buf, Semicolon)
    IN  IF TooShort(fields) THEN [kind |-> "absent"]
        ELSE LET key == KeyFields(fields)
                 vals == [k \in 1..5 |-> PyFloatFromBytes(key[k])]
                 err == FirstError(vals, 1)
             IN  IF IsError(err) THEN err
                 ELSE [kind |-> "metadata",
                       meta |-> WaveformMetadata(vals[1], vals[2], vals[3],
                                                 vals[4], vals[5])]

\* the fields of the preamble of the function's doctest
DocFields == <<
      <<"1">>,
      <<"8">>,
      <<"B", "I", "N", "A", "R", "Y">>,
      <<"R", "I">>,
      <<"M", "S", "B">>,
      <<"\"", "C", "h", "1", ",", " ", "D", "C", " ", "c", "o", "u", "p",
        "l", "i", "n", "g", ",", " ", "1", "0", "0", ".", "0", "m", "V",
        "/", "d", "i", "v", ",", " ", "4", "0", "0", ".", "0", "n", "s",
        "/", "d", "i", "v", ",", " ", "1", "0", "0", "0", "0", " ", "p",
        "o", "i", "n", "t", "s", ",", " ", "S", "a", "m", "p", "l", "e",
        " ", "m", "o", "d", "e", "\"">>,
      <<"1", "0", "0", "0", "0">>,
      <<"Y">>,
      <<"L", "I", "N", "E", "A", "R">>,
      <<"\"", "s", "\"">>,
      <<"4", "0", "0", ".", "0", "0", "0", "0", "E", "-", "1", "2">>,
      <<"-", "2", "0", ".", "0", "0", "0", "0", "E", "-", "6">>,
      <<"0">>,
      <<"\"", "V", "\"">>,
      <<"4", ".", "0", "0", "0", "0", "E", "-", "3">>,
      <<"0", ".", "0", "E", "+", "0">>,
      <<"0", ".", "0", "E", "+", "0">>,
      <<"T", "I", "M", "E">>,
      <<"A", "N", "A", "L", "O", "G">>,
      <<"0", ".", "0", "E", "+", "0">>,
      <<"0", ".", "0", "E", "+", "0">>,
      <<"0", ".", "0", "E", "+", "0">>
>>

\* most fields appended to the doctest's 22
MaxExtraFields == 1

\* texts put in place of one of the five numeric fields
KeyTexts == {
    <<"x">>,
    <<>>,
    <<"1", ".", "5">>,
    <<" ", "2", "e", "3", "\n">>,
    <<"n", "a", "n">>,
    <<"-", ".", "5", "E", "+", "2">>,
    <<"1", "e">>,
    <<"1", "_", "0", "0", "0">>
}

\* texts put in place of any one field, and appended
FillerTexts == {
    <<"x">>,
    <<>>,
    <<"7">>
}

KeyIndices == {11, 12, 15, 16, 17}

\* numbers of fields the lists are cut to: one field, and around the
\* positions the decoder reads and the length it asks for
CutLengths == {1, 11, 16, 17, 18}

Replace(fields, i, text) == [fields EXCEPT ![i] = text]

\* the doctest's fields with at most one numeric field and at most one
\* further field replaced, then cut to a prefix or extended
PreambleFieldLists ==
    LET keyEdited == {DocFields}
            \cup { Replace(DocFields, i, t) : i \in KeyIndices, t \in KeyTexts }
        edited == keyEdited
            \cup { Replace(f, i, t) :
                      f \in keyEdited, i \in 1..Len(DocFields), t \in FillerTexts }
    IN  { SubSeq(f, 1, n) : f \in edited, n \in CutLengths }
        \cup { f \o x : f \in edited, x \in SeqsUpTo(FillerTexts, MaxExtraFields) }

InitPre ==
    /\ pc = "ready"
    /\ fn = "parse_wfmoutpre"
    /\ pieces \in PreambleFieldLists
    /\ data = Join(pieces, ";")
    /\ dtype = 8
    /\ numpy = 2
    /\ longBits = 64
    /\ result = NoResult

CallWfmoutpre ==
    /\ pc = "ready"
    /\ fn = "parse_wfmoutpre"
    /\ result' = parse_wfmoutpre(data)
    /\ pc' = "done"
    /\ UNCHANGED <<fn, pieces, data, dtype, numpy, longBits>>

NextPre == CallWfmoutpre

SpecPre == InitPre /\ [][NextPre]_vars

(***************************************************************************)
(* Any one call of any of the three functions.                             *)
(***************************************************************************)
Init == InitBin \/ InitAscii \/ InitPre

Next == CallRibinary \/ CallAscii \/ CallWfmoutpre

Spec == Init /\ [][Next]_vars

(***************************************************************************)
(* Claims about parse_ribinary_seq (checked under SpecBin).                *)
(***************************************************************************)
RibinaryDone == pc = "done" /\ fn = "parse_ribinary_seq"

\* largest value of a signed integer of w bits, computed without leaving
\* 32 bits
MaxSigned(w) == (2 ^ (w - 2) - 1) * 2 + 1
MinSigned(w) == -MaxSigned(w) - 1

\* byte k (1 = most significant) of the two's-complement form of v on
\* `size` bytes: shift right by whole bytes, keep the low 8 bits
TwosComplementByte(v, size, k) == (v \div (256 ^ (size - k))) % 256

\* C1: for a buffer whose length is a multiple of the element size the
\* decoder returns len/size elements, in input order, element i being the
\* signed two's-complement value of its bytes read most significant byte
\* first; the empty buffer gives the empty sequence and 07 05 f8 c1 at
\* width 16 gives [1797, -1855].
C1_BinaryDecode ==
    (RibinaryDone /\ Len(data) % ItemSize(dtype) = 0) =>
        LET size == ItemSize(dtype) IN
        /\ result.kind = "array"
        /\ Len(result.items) = Len(data) \div size
        /\ \A i \in 1..Len(result.items) :
              /\ result.items[i] >= MinSigned(dtype)
              /\ result.items[i] <= MaxSigned(dtype)
              /\ \A k \in 1..size :
                    data[(i - 1) * size + k]
                        = TwosComplementByte(result.items[i], size, k)
        /\ (data = <<>> => result.items = <<>>)
        /\ (data = <<7, 5, 248, 193>> /\ dtype = 16
               => result.items = <<1797, -1855>>)

C1_Witness ==
    /\ RibinaryDone
    /\ data = <<7, 5, 248, 193>>
    /\ dtype = 16
    /\ result.kind = "array"
    /\ result.items = <<1797, -1855>>

\* re-encoding of a decoded sequence: every element as `size` big-endian
\* two's-complement bytes, one element after the other
RECURSIVE EncodeBigEndian(_, _)
EncodeBigEndian(items, size) ==
    IF items = <<>> THEN <<>>
    ELSE [k \in 1..size |-> TwosComplementByte(Head(items), size, k)]
            \o EncodeBigEndian(Tail(items), size)

\* C2: round trip: decoding a buffer of whole elements and re-encoding the
\* elements big-endian at the same width gives back the original bytes.
C2_RoundTrip ==
    (RibinaryDone /\ Len(data) % ItemSize(dtype) = 0) =>
        /\ result.kind = "array"
        /\ EncodeBigEndian(result.items, ItemSize(dtype)) = data

C2_Witness ==
    /\ RibinaryDone
    /\ dtype = 32
    /\ data = <<128, 0, 0, 0, 127, 255, 255, 255>>
    /\ result.kind = "array"
    /\ EncodeBigEndian(result.items, 4) = data

\* C3: at width 16 or 32 a buffer whose length is not a multiple of the
\* element size makes the decoder fail (ValueError, the code's form of the
\* FormatError) and return no sequence.
C3_TruncatedBufferFails ==
    (RibinaryDone /\ dtype \in {16, 32} /\ Len(data) % ItemSize(dtype) # 0) =>
        /\ result.kind = "error"
        /\ result.exc = "ValueError"

C3_Witness ==
    /\ RibinaryDone
    /\ dtype = 16
    /\ data = <<7, 5, 248>>
    /\ result.kind = "error"


(***************************************************************************)
(* Claims about parse_ascii_seq (checked under SpecAscii).  The tokens are *)
(* read from `pieces`, the list the buffer was joined from, and judged on  *)
(* their decimal text, apart from the decoder's own parsing.               *)
(***************************************************************************)
AsciiDone == pc = "done" /\ fn = "parse_ascii_seq"

\* a decimal integer literal: an optional leading sign, then digits only
StrictLiteral(tok) ==
    LET body == IF tok # <<>> /\ tok[1] \in {"+", "-"} THEN Tail(tok) ELSE tok
    IN  body # <<>> /\ \A k \in 1..Len(body) : IsDigit(body[k])

\* a scanner for the literals int() takes: white space, sign, digits with
\* single underscores between them, white space
LiteralScan(state, c) ==
    CASE state = "lead" ->
            IF IsSpace(c) THEN "lead"
            ELSE IF c \in {"+", "-"} THEN "sign"
            ELSE IF IsDigit(c) THEN "digit" ELSE "bad"
      [] state = "sign" -> IF IsDigit(c) THEN "digit" ELSE "bad"
      [] state = "digit" ->
            IF IsDigit(c) THEN "digit"
            ELSE IF c = "_" THEN "under"
            ELSE IF IsSpace(c) THEN "trail" ELSE "bad"
      [] state = "under" -> IF IsDigit(c) THEN "digit" ELSE "bad"
      [] state = "trail" -> IF IsSpace(c) THEN "trail" ELSE "bad"
      [] OTHER -> "bad"

RECURSIVE LiteralScanAll(_, _, _)
LiteralScanAll(tok, k, state) ==
    IF k > Len(tok) THEN state
    ELSE LiteralScanAll(tok, k + 1, LiteralScan(state, tok[k]))

AcceptedLiteral(tok) == LiteralScanAll(tok, 1, "lead") \in {"digit", "trail"}

IsNegative(tok) == \E k \in 1..Len(tok) : tok[k] = "-"

RECURSIVE DropLeadingZeros(_)
DropLeadingZeros(ds) ==
    IF Len(ds) > 1 /\ Head(ds) = "0" THEN DropLeadingZeros(Tail(ds)) ELSE ds

\* the significant digits of a literal
Significant(tok) == DropLeadingZeros(SelectSeq(tok, IsDigit))

\* a <= b for two digit strings of the same length
RECURSIVE DecLeq(_, _)
DecLeq(a, b) ==
    \/ a = <<>>
    \/ DigitVal(Head(a)) < DigitVal(Head(b))
    \/ Head(a) = Head(b) /\ DecLeq(Tail(a), Tail(b))

\* the decimal digits of 2^(bits-1)
Pow2Digits(bits) ==
    CASE bits = 8 -> <<"1", "2", "8">>
      [] bits = 16 -> <<"3", "2", "7", "6", "8">>
      [] bits = 32 -> <<"2", "1", "4", "7", "4", "8", "3", "6", "4", "8">>
      [] bits = 64 -> <<"9", "2", "2", "3", "3", "7", "2", "0", "3", "6",
                        "8", "5", "4", "7", "7", "5", "8", "0", "8">>

\* the literal's value v satisfies -2^(bits-1) <= v <= 2^(bits-1) - 1
LiteralFits(tok, bits) ==
    LET sig == Significant(tok)
        lim == Pow2Digits(bits)
    IN  \/ Len(sig) < Len(lim)
        \/ /\ Len(sig) = Len(lim)
           /\ DecLeq(sig, lim)
           /\ (sig = lim => IsNegative(tok) \/ sig = <<"0">>)

\* the value of a literal that fits 32 bits
RECURSIVE LiteralValueAcc(_, _, _, _)
LiteralValueAcc(ds, k, neg, acc) ==
    IF k > Len(ds) THEN acc
    ELSE LiteralValueAcc(ds, k + 1, neg,
            acc * 10 + (IF neg THEN -DigitVal(ds[k]) ELSE DigitVal(ds[k])))

LiteralValue(tok) ==
    LET sig == Significant(tok)
    IN  LiteralValueAcc(sig, 1, IsNegative(tok) /\ sig # <<"0">>, 0)

\* C4: a buffer of n >= 1 comma-separated decimal integer literals, each
\* inside the target width's signed range, decodes to exactly n elements,
\* element i being the base-10 value of token i; "1,2" at width 8 gives
\* [1, 2].
C4_AsciiDecode ==
    (/\ AsciiDone
     /\ \A i \in 1..Len(pieces) :
           StrictLiteral(pieces[i]) /\ LiteralFits(pieces[i], dtype)) =>
        /\ result.kind = "array"
        /\ Len(result.items) = Len(pieces)
        /\ \A i \in 1..Len(pieces) : result.items[i] = LiteralValue(pieces[i])
        /\ (data = <<"1", ",", "2">> /\ dtype = 8 => result.items = <<1, 2>>)

C4_Witness ==
    /\ AsciiDone
    /\ data = <<"1", ",", "2">>
    /\ dtype = 8
    /\ result.kind = "array"
    /\ result.items = <<1, 2>>

Malformed(tok) == ~AcceptedLiteral(tok)

FirstMalformed(seq) ==
    CHOOSE i \in 1..Len(seq) :
        Malformed(seq[i]) /\ \A j \in 1..(i - 1) : ~Malformed(seq[j])

\* C5 as stated: a buffer with a token that is not a decimal integer
\* literal (optional sign, digits, no white space) makes the decoder fail
\* with a FormatError and return no sequence.  (The index of the token,
\* which the claim also asks for, is in no exception of the decoder: the
\* message quotes the token's text.)
C5_Original_StrictTokensOnly ==
    (AsciiDone /\ \E i \in 1..Len(pieces) : ~StrictLiteral(pieces[i])) =>
        /\ result.kind = "error"
        /\ result.exc = "ValueError"

\* C5 (amended): a buffer with a token that int() does not accept (white
\* space around the literal, a sign, digits with single underscores are
\* accepted) makes the decoder fail and return no sequence: with a
\* ValueError quoting the text of the first such token, unless an earlier
\* token is out of range and has already ended the call with an
\* OverflowError.
C5_MalformedTokenFails ==
    (AsciiDone /\ \E i \in 1..Len(pieces) : Malformed(pieces[i])) =>
        LET first == FirstMalformed(pieces) IN
        /\ result.kind = "error"
        /\ result.exc \in {"ValueError", "OverflowError"}
        /\ result.exc = "ValueError" => result.arg = pieces[first]
        /\ result.exc = "OverflowError" =>
              \E j \in 1..(first - 1) : ~LiteralFits(pieces[j], dtype)
        /\ (\A j \in 1..(first - 1) : LiteralFits(pieces[j], dtype))
              => result.exc = "ValueError"

C5_Witness ==
    /\ AsciiDone
    /\ data = <<"1", ",", "x">>
    /\ result.kind = "error"
    /\ result.exc = "ValueError"
    /\ result.arg = <<"x">>

\* |v| mod 2^32 of a literal, as <<high 16 bits, low 16 bits>>, by Horner's
\* rule on its decimal digits
RECURSIVE ResidueAcc(_, _, _, _)
ResidueAcc(ds, k, hi, lo) ==
    IF k > Len(ds) THEN <<hi, lo>>
    ELSE LET t == lo * 10 + DigitVal(ds[k])
         IN  ResidueAcc(ds, k + 1, (hi * 10 + t \div 65536) % 65536, t % 65536)

\* r is congruent to the literal's value modulo 2^w: for a positive value
\* the low w bits agree, for a negative one |v| + r has its low w bits zero
CongruentToLiteral(tok, r, w) ==
    LET m == ResidueAcc(Significant(tok), 1, 0, 0)
        rlo == r % 65536
        rhi == (r \div 65536) % 65536
        s == m[2] + rlo
    IN  IF IsNegative(tok)
        THEN CASE w = 8 -> s % 256 = 0
               [] w = 16 -> s % 65536 = 0
               [] w = 32 -> s % 65536 = 0 /\ (m[1] + rhi + s \div 65536) % 65536 = 0
        ELSE CASE w = 8 -> m[2] % 256 = rlo % 256
               [] w = 16 -> m[2] = rlo
               [] w = 32 -> m[2] = rlo /\ m[1] = rhi

AllStrict == \A i \in 1..Len(pieces) : StrictLiteral(pieces[i])
SomeOutOfRange == \E i \in 1..Len(pieces) : ~LiteralFits(pieces[i], dtype)

Wrapped ==
    /\ result.kind = "array"
    /\ Len(result.items) = Len(pieces)
    /\ \A i \in 1..Len(pieces) :
          /\ result.items[i] >= MinSigned(dtype)
          /\ result.items[i] <= MaxSigned(dtype)
          /\ CongruentToLiteral(pieces[i], result.items[i], dtype)

\* C6 as stated: a valid decimal token whose value is outside the target
\* width's signed range does not make the decoder fail; the token's element
\* is the value's two's-complement truncation to the width.
C6_Original_AlwaysWraps ==
    (AsciiDone /\ AllStrict /\ SomeOutOfRange) => Wrapped

\* C6 (amended): with a valid decimal token outside the target width's
\* range the decoder either fails with an OverflowError or yields, for every
\* token, the value's two's-complement truncation to the width, and never
\* another value.  It wraps exactly when it runs on NumPy 1 and every value
\* fits the platform's C long; on NumPy 2, or with a value outside the C
\* long, it fails.
C6_WrapsOrOverflows ==
    (AsciiDone /\ AllStrict /\ SomeOutOfRange) =>
        LET wraps == numpy = 1 /\ \A i \in 1..Len(pieces) :
                                      LiteralFits(pieces[i], longBits)
        IN  /\ wraps => Wrapped
            /\ ~wraps => result.kind = "error" /\ result.exc = "OverflowError"

C6_Witness ==
    /\ AsciiDone
    /\ numpy = 1
    /\ data = <<"3", "0", "0">>
    /\ dtype = 8
    /\ result.kind = "array"
    /\ result.items = <<44>>

(***************************************************************************)
(* Claims about parse_wfmoutpre (checked under SpecPre).  The fields are   *)
(* read from `pieces`, the list the record was joined from.                *)
(***************************************************************************)
PreDone == pc = "done" /\ fn = "parse_wfmoutpre"

\* a scanner for the literals float() takes
FloatScan(state, ch) ==
    LET c == Lower(ch)
        numStart == IF IsDigit(c) THEN "int"
                    ELSE IF c = "." THEN "dot"
                    ELSE IF c = "i" THEN "w_i"
                    ELSE IF c = "n" THEN "w_n" ELSE "bad"
        word(next, expect) == IF c = expect THEN next ELSE "bad"
    IN  CASE state = "lead" ->
                IF IsSpace(c) THEN "lead"
                ELSE IF c \in {"+", "-"} THEN "sign" ELSE numStart
          [] state = "sign" -> numStart
          [] state = "int" ->
                IF IsDigit(c) THEN "int"
                ELSE IF c = "_" THEN "int_"
                ELSE IF c = "." THEN "point"
                ELSE IF c \in {"e", "E"} THEN "e"
                ELSE IF IsSpace(c) THEN "trail" ELSE "bad"
          [] state = "int_" -> IF IsDigit(c) THEN "int" ELSE "bad"
          [] state = "dot" -> IF IsDigit(c) THEN "frac" ELSE "bad"
          [] state \in {"point", "frac"} ->
                IF IsDigit(c) THEN "frac"
                ELSE IF c = "_" /\ state = "frac" THEN "frac_"
                ELSE IF c \in {"e", "E"} THEN "e"
                ELSE IF IsSpace(c) THEN "trail" ELSE "bad"
          [] state = "frac_" -> IF IsDigit(c) THEN "frac" ELSE "bad"
          [] state = "e" ->
                IF IsDigit(c) THEN "exp"
                ELSE IF c \in {"+", "-"} THEN "esign" ELSE "bad"
          [] state = "esign" -> IF IsDigit(c) THEN "exp" ELSE "bad"
          [] state = "exp" ->
                IF IsDigit(c) THEN "exp"
                ELSE IF c = "_" THEN "exp_"
                ELSE IF IsSpace(c) THEN "trail" ELSE "bad"
          [] state = "exp_" -> IF IsDigit(c) THEN "exp" ELSE "bad"
          [] state = "w_n" -> word("w_na", "a")
          [] state = "w_na" -> word("w_nan", "n")
          [] state = "w_i" -> word("w_in", "n")
          [] state = "w_in" -> word("w_inf", "f")
          [] state = "w_inf" -> IF IsSpace(c) THEN "trail" ELSE word("w_infi", "i")
          [] state = "w_infi" -> word("w_infin", "n")
          [] state = "w_infin" -> word("w_infini", "i")
          [] state = "w_infini" -> word("w_infinit", "t")
          [] state = "w_infinit" -> word("w_infinity", "y")
          [] state \in {"w_nan", "w_infinity", "trail"} ->
                IF IsSpace(c) THEN "trail" ELSE "bad"
          [] OTHER -> "bad"

RECURSIVE FloatScanAll(_, _, _)
FloatScanAll(tok, k, state) ==
    IF k > Len(tok) THEN state
    ELSE FloatScanAll(tok, k + 1, FloatScan(state, tok[k]))

AcceptedFloat(tok) ==
    FloatScanAll(tok, 1, "lead")
        \in {"int", "point", "frac", "exp", "trail", "w_nan", "w_inf", "w_infinity"}

\* the five fields the claims are about, as positions in `pieces`
NumericPositions == <<11, 12, 15, 16, 17>>

Finite(m, e) == [cls |-> "finite", m |-> m, e |-> e]

\* C7: a record of fewer than 17 semicolon-separated fields (the empty
\* buffer is one empty field) gives the absent result, whatever its fields
\* hold: no error, no WaveformMetadata.  A WaveformMetadata is returned only
\* for a record of at least 17 fields.
C7_ShortRecordAbsent ==
    PreDone =>
        /\ Len(pieces) < 17 => result.kind = "absent"
        /\ result.kind = "metadata" => Len(pieces) >= 17

C7_Witness ==
    /\ PreDone
    /\ Len(pieces) = 16
    /\ pieces[11] = <<"x">>
    /\ result.kind = "absent"

\* C8: for a record of at least 17 fields whose fields 10, 11, 14, 15, 16
\* (counted from 0) are floating-point literals the decoder returns a
\* WaveformMetadata with t_incr, t_zero, v_mult, v_off, v_zero the values
\* of these fields, in this order; no other field and no further field has
\* a part in the result.  The doctest's record gives 400e-12, -20e-6, 4e-3,
\* 0, 0.
C8_FieldsByPosition ==
    (/\ PreDone
     /\ Len(pieces) >= 17
     /\ \A k \in 1..5 : AcceptedFloat(pieces[NumericPositions[k]])) =>
        /\ result.kind = "metadata"
        /\ result.meta = [t_incr |-> PyFloatFromBytes(pieces[11]),
                          t_zero |-> PyFloatFromBytes(pieces[12]),
                          v_mult |-> PyFloatFromBytes(pieces[15]),
                          v_off |-> PyFloatFromBytes(pieces[16]),
                          v_zero |-> PyFloatFromBytes(pieces[17])]
        /\ (\A k \in 1..5 : pieces[NumericPositions[k]] = DocFields[NumericPositions[k]])
              => result.meta = [t_incr |-> Finite(4, -10), t_zero |-> Finite(-2, -5),
                                v_mult |-> Finite(4, -3), v_off |-> Finite(0, 0),
                                v_zero |-> Finite(0, 0)]

C8_Witness ==
    /\ PreDone
    /\ Len(pieces) = 23
    /\ pieces[1] = <<"x">>
    /\ pieces[16] = <<"1", ".", "5">>
    /\ result.kind = "metadata"
    /\ result.meta.t_incr = Finite(4, -10)
    /\ result.meta.v_off = Finite(15, -1)
    /\ result.meta.v_zero = Finite(0, 0)

====
